---- MODULE Spec2Model ----
(***************************************************************************)
(* Model of the "Chat with PDFs" backend (src/backend/app.py): the upload  *)
(* pipeline (extract, chunk, index), the ask pipeline, and the cooperative *)
(* event loop that runs the three request handlers.                        *)
(*                                                                         *)
(* A text is a sequence of Unicode code points (97 is "a", 32 the space,    *)
(* 10 the newline, 13 the carriage return).  A PDF buffer is a             *)
(* record [opens, pages]: opens is FALSE when PdfReader raises on it; a    *)
(* page is [ok, text], ok FALSE when reaching or extracting it raises,     *)
(* text <<>> when extract_text returns None or "".                         *)
(***************************************************************************)
EXTENDS Integers, Sequences, FiniteSets, TLC

\* chunk_size and chunk_overlap of the splitter built on line 57
ChunkSize == 10000
ChunkOverlap == 1000

\* ----------------------------------------------------------------------
\* get_pdf_text
\* ----------------------------------------------------------------------

\* The inner loop over pdf_reader.pages from page i on: page_text is added
\* to text when truthy; a raise leaves the loop with the text gathered so far
\* (the except clause of the enclosing try only logs and continues).
RECURSIVE ExtractPages(_, _, _)
ExtractPages(pages, i, text) ==
    IF i > Len(pages) THEN text
    ELSE IF ~pages[i].ok THEN text
    ELSE ExtractPages(pages, i + 1,
                      IF pages[i].text # <<>> THEN text \o pages[i].text ELSE text)

\* The outer loop over pdf_docs from buffer k on.
RECURSIVE GetPdfTextFrom(_, _, _)
GetPdfTextFrom(pdf_docs, k, text) ==
    IF k > Len(pdf_docs) THEN text
    ELSE GetPdfTextFrom(pdf_docs, k + 1,
                        IF ~pdf_docs[k].opens THEN text
                        ELSE ExtractPages(pdf_docs[k].pages, 1, text))

\* get_pdf_text as it would be if a buffer's text were gathered apart and
\* thrown away when the buffer fails
RECURSIVE GetPdfTextDroppingFailed(_, _, _)
GetPdfTextDroppingFailed(pdf_docs, k, text) ==
    IF k > Len(pdf_docs) THEN text
    ELSE GetPdfTextDroppingFailed(pdf_docs, k + 1,
            IF ~pdf_docs[k].opens
               \/ \E i \in 1..Len(pdf_docs[k].pages) : ~pdf_docs[k].pages[i].ok
            THEN text
            ELSE ExtractPages(pdf_docs[k].pages, 1, text))

get_pdf_text_dropping_failed(pdf_docs) ==
    GetPdfTextDroppingFailed(pdf_docs, 1, <<>>)

get_pdf_text(pdf_docs) ==
    GetPdfTextFrom(pdf_docs, 1, <<>>)

\* ----------------------------------------------------------------------
\* get_text_chunks: RecursiveCharacterTextSplitter(chunk_size, chunk_overlap)
\* with its defaults (separators "\n\n", "\n", " ", ""; the separator kept at
\* the start of each split; chunks stripped of surrounding whitespace).
\* A split or chunk of text T is kept as its span [lo, hi] in T; every split
\* list the splitter handles is a run of consecutive spans, so joining a
\* list of splits is the span from the first one's lo to the last one's hi.
\* A loop over the items a..b of a list is written as the loop over a..m
\* followed, from the state that one ends in, by the loop over m+1..b.
\* ----------------------------------------------------------------------

Separators == << <<10, 10>>, <<10>>, <<32>>, <<>> >>

\* the characters str.strip() removes: those for which str.isspace() holds
IsSpace(c) ==
    c \in (9..13) \cup (28..32) \cup {133, 160, 5760} \cup (8192..8202)
          \cup {8232, 8233, 8239, 8287, 12288}

SpanLen(p) == p.hi - p.lo + 1

\* An operator takes its arguments unevaluated; the state a loop has reached
\* is evaluated before the loop goes on from it.
Evaluated(st) == st = st

\* separator occurs in T at position i, inside [.., hi]
MatchesAt(T, i, hi, sep) ==
    /\ i + Len(sep) - 1 <= hi
    /\ \A k \in 1..Len(sep) : T[i + k - 1] = sep[k]

\* re.search(separator, text)
Occurs(T, lo, hi, sep) ==
    \E i \in lo..hi : MatchesAt(T, i, hi, sep)

\* re.split at position i: a match there counts when it starts at or after
\* st.next, the end of the match before it
ScanStep(T, i, hi, sep, st) ==
    IF i >= st.next /\ MatchesAt(T, i, hi, sep)
    THEN [next |-> i + Len(sep), occ |-> Append(st.occ, i)]
    ELSE st

\* re.split over the positions a..b
RECURSIVE Scan(_, _, _, _, _, _)
Scan(T, a, b, hi, sep, st) ==
    IF a > b \/ st.next > b THEN st
    ELSE IF a = b THEN ScanStep(T, a, hi, sep, st)
    ELSE LET m == (a + b) \div 2
         IN Scan(T, m + 1, b, hi, sep, Scan(T, a, m, hi, sep, st))

\* the non-overlapping occurrences of the separator, leftmost first
Occurrences(T, lo, hi, sep) ==
    Scan(T, lo, hi, hi, sep, [next |-> lo, occ |-> <<>>]).occ

\* _split_text_with_regex(text, separator, keep_separator=True): the piece
\* before the first separator, then one piece per separator that starts with
\* it; empty pieces dropped.  With separator "" it is list(text).
SplitWithRegex(T, lo, hi, sep) ==
    IF sep = <<>>
    THEN [k \in 1..(hi - lo + 1) |-> [lo |-> lo + k - 1, hi |-> lo + k - 1]]
    ELSE LET occ == Occurrences(T, lo, hi, sep)
             n == Len(occ)
             head == IF n = 0
                     THEN (IF lo <= hi THEN <<[lo |-> lo, hi |-> hi]>> ELSE <<>>)
                     ELSE (IF occ[1] > lo THEN <<[lo |-> lo, hi |-> occ[1] - 1]>>
                           ELSE <<>>)
             rest == [k \in 1..n |->
                        [lo |-> occ[k],
                         hi |-> IF k < n THEN occ[k + 1] - 1 ELSE hi]]
         IN head \o rest

\* str.strip() on the span [lo, hi] of T: where the first character that is
\* not whitespace is (hi + 1 when there is none), and where the last one is
LStrip(T, lo, hi) ==
    IF \A i \in lo..hi : IsSpace(T[i]) THEN hi + 1
    ELSE CHOOSE l \in lo..hi :
            ~IsSpace(T[l]) /\ \A i \in lo..(l - 1) : IsSpace(T[i])

RStrip(T, lo, hi) ==
    IF \A i \in lo..hi : IsSpace(T[i]) THEN lo - 1
    ELSE CHOOSE h \in lo..hi :
            ~IsSpace(T[h]) /\ \A i \in (h + 1)..hi : IsSpace(T[i])

\* _join_docs(docs, ""): the joined, stripped text as <<span>>, or <<>> for
\* None (nothing left after stripping)
JoinDocs(T, docs) ==
    IF docs = <<>> THEN <<>>
    ELSE LET lo == docs[1].lo
             hi == docs[Len(docs)].hi
             l == LStrip(T, lo, hi)
             h == RStrip(T, l, hi)
         IN IF l > h THEN <<>> ELSE <<[lo |-> l, hi |-> h]>>

\* PopTest as it would be without the test against chunk_overlap
PopTestFits(total, len) ==
    total + len > ChunkSize /\ total > 0

\* the test of the while loop of _merge_splits (separator_len is 0)
PopTest(total, len) ==
    total > ChunkOverlap \/ (total + len > ChunkSize /\ total > 0)

\* the while loop of _merge_splits, which drops the first split of
\* current_doc while PopTest holds: its iterations a..b
RECURSIVE PopRange(_, _, _, _)
PopRange(a, b, len, st) ==
    IF a > b \/ ~PopTest(st.total, len) THEN st
    ELSE IF a = b
         THEN [current_doc |-> Tail(st.current_doc),
               total |-> st.total - SpanLen(st.current_doc[1])]
         ELSE LET m == (a + b) \div 2
              IN PopRange(m + 1, b, len, PopRange(a, m, len, st))

\* the loop runs once per split of current_doc at most: total is 0 when
\* none is left
PopWhile(current_doc, total, len) ==
    PopRange(1, Len(current_doc), len,
             [current_doc |-> current_doc, total |-> total])

\* the body of the for loop of _merge_splits, for split d
MergeStep(T, d, st) ==
    LET len == SpanLen(d)
    IN IF st.total + len > ChunkSize /\ Len(st.current_doc) > 0
       THEN LET p == PopWhile(st.current_doc, st.total, len)
            IN [docs |-> st.docs \o JoinDocs(T, st.current_doc),
                current_doc |-> Append(p.current_doc, d),
                total |-> p.total + len]
       ELSE [docs |-> st.docs,
             current_doc |-> Append(st.current_doc, d),
             total |-> st.total + len]

\* the for loop of _merge_splits over the splits a..b
RECURSIVE MergeRange(_, _, _, _, _)
MergeRange(T, splits, a, b, st) ==
    IF a > b THEN st
    ELSE IF a = b THEN MergeStep(T, splits[a], st)
    ELSE LET m == (a + b) \div 2
             half == MergeRange(T, splits, a, m, st)
         IN IF Evaluated(half) THEN MergeRange(T, splits, m + 1, b, half)
            ELSE half

MergeSplits(T, splits) ==
    LET st == MergeRange(T, splits, 1, Len(splits),
                         [docs |-> <<>>, current_doc |-> <<>>, total |-> 0])
    IN st.docs \o JoinDocs(T, st.current_doc)

\* the separator _split_text picks: the first of separators that is "" or
\* occurs in the text; the last one when none does
RECURSIVE PickSeparator(_, _, _, _, _)
PickSeparator(T, lo, hi, separators, i) ==
    IF i > Len(separators)
    THEN [sep |-> separators[Len(separators)], new |-> <<>>]
    ELSE IF separators[i] = <<>>
         THEN [sep |-> <<>>, new |-> <<>>]
         ELSE IF Occurs(T, lo, hi, separators[i])
              THEN [sep |-> separators[i],
                    new |-> SubSeq(separators, i + 1, Len(separators))]
              ELSE PickSeparator(T, lo, hi, separators, i + 1)

\* _split_text(text, separators), and its loop over the splits a..b: short
\* splits are gathered and merged; a split of chunk_size or more is split
\* again with the remaining separators
RECURSIVE SplitText(_, _, _, _)
RECURSIVE SplitRange(_, _, _, _, _, _)

\* the body of the loop, for split s
SplitStep(T, s, new_separators, st) ==
    IF SpanLen(s) < ChunkSize
    THEN [good_splits |-> Append(st.good_splits, s),
          final_chunks |-> st.final_chunks]
    ELSE [good_splits |-> <<>>,
          final_chunks |->
              st.final_chunks \o MergeSplits(T, st.good_splits)
                \o (IF new_separators = <<>> THEN <<s>>
                    ELSE SplitText(T, s.lo, s.hi, new_separators))]

SplitRange(T, splits, a, b, new_separators, st) ==
    IF a > b THEN st
    ELSE IF a = b THEN SplitStep(T, splits[a], new_separators, st)
    ELSE LET m == (a + b) \div 2
             half == SplitRange(T, splits, a, m, new_separators, st)
         IN IF Evaluated(half)
            THEN SplitRange(T, splits, m + 1, b, new_separators, half)
            ELSE half

SplitText(T, lo, hi, separators) ==
    LET pick == PickSeparator(T, lo, hi, separators, 1)
        splits == SplitWithRegex(T, lo, hi, pick.sep)
        st == SplitRange(T, splits, 1, Len(splits), pick.new,
                         [good_splits |-> <<>>, final_chunks |-> <<>>])
    IN st.final_chunks \o MergeSplits(T, st.good_splits)

\* the spans of the chunks of text, in order
ChunkSpans(text) ==
    SplitText(text, 1, Len(text), Separators)

get_text_chunks(text) ==
    LET spans == ChunkSpans(text)
    IN [k \in 1..Len(spans) |-> SubSeq(text, spans[k].lo, spans[k].hi)]

\* ----------------------------------------------------------------------
\* Values
\* ----------------------------------------------------------------------

Tasks == {"t1", "t2"}
NoTask == "none"

\* the directory at FAISS_INDEX_PATH: absent, present with a loadable index,
\* or present but not loadable (a delete or a save that stopped half-way)
NoIndex == [exists |-> FALSE, complete |-> FALSE, docs |-> <<>>]
PartialIndex == [exists |-> TRUE, complete |-> FALSE, docs |-> <<>>]
SavedIndex(store) == [exists |-> TRUE, complete |-> TRUE, docs |-> store]

\* FAISS.from_texts: one entry per text, in the order given
from_texts(texts) ==
    [k \in 1..Len(texts) |-> [pos |-> k - 1, page_content |-> texts[k]]]

\* an exception, by what str(e) gives
HTTPException(status_code, detail) ==
    [status |-> status_code, detail |-> detail]

StrHTTPException(e) == <<ToString(e.status), ": ">> \o e.detail

\* the response the framework sends for an HTTPException leaving a handler
HttpResponse(e) == [status |-> e.status, detail |-> e.detail]

NoResp == [status |-> 0, detail |-> <<>>]

\* the framework's answer to a POST /upload without the required field files
FieldRequired == [status |-> 422, detail |-> <<"Field required">>]

NoFilesDetail == <<"No files were uploaded.">>
NoTextDetail == <<"Could not extract any text from the provided PDFs.">>
EmptyChunksError == <<"Text chunks are empty, cannot create vector store.">>
NoQuestionDetail == <<"No question was provided.">>
NoDocumentsDetail ==
    <<"No documents have been processed yet. Please upload files first.">>
MissingKeyError ==
    <<"GOOGLE_API_KEY not found in .env file. Please check your .env file.">>
UploadSuccess ==
    [status |-> 200,
     detail |-> <<"Documents processed successfully. You can now ask a question.">>]
AnswerResponse == [status |-> 200, detail |-> <<"answer">>]
Welcome == [status |-> 200, detail |-> <<"Welcome to the Chat with PDFs Backend!">>]

\* the except clause of upload_pdfs: whatever was raised inside the try,
\* an HTTPException included, becomes a 500 that echoes str(e)
UploadCatch(str_e) ==
    HttpResponse(HTTPException(500,
        <<"An error occurred during processing: ">> \o str_e))

\* the except clause of ask_question
AskCatch(str_e) ==
    HttpResponse(HTTPException(500, <<"An internal error occurred: ">> \o str_e))

\* ----------------------------------------------------------------------
\* Inputs
\* ----------------------------------------------------------------------

Corrupt == [opens |-> FALSE, pages |-> <<>>]
Pdf(pages) == [opens |-> TRUE, pages |-> pages]
Page(text) == [ok |-> TRUE, text |-> text]
BadPage == [ok |-> FALSE, text |-> <<>>]

\* the uploads the service model receives: no file; an unreadable file; a
\* file with only whitespace (" \n"); a short file ("ab"); an unreadable file
\* and a readable one ("abcdefg h"); a file whose second page fails ("cd",
\* failure, "x") and a file without text
UploadInputs ==
    { <<>>,
      <<Corrupt>>,
      <<Pdf(<<Page(<<32, 10>>)>>)>>,
      <<Pdf(<<Page(<<97, 98>>)>>)>>,
      <<Corrupt, Pdf(<<Page(<<97, 98, 99, 100, 101, 102, 103, 32, 104>>)>>)>>,
      <<Pdf(<<Page(<<99, 100>>), BadPage, Page(<<120>>)>>), Pdf(<<Page(<<>>)>>)>> }

\* the questions: "" and "q"
Questions == { <<>>, <<113>> }

\* c repeated n times
Rep(c, n) == [i \in 1..n |-> c]

\* k copies of the word w, sep between them
RECURSIVE Words(_, _, _)
Words(w, sep, k) ==
    IF k <= 1 THEN w ELSE Words(w, sep, k - 1) \o sep \o w

\* spaces, half a chunk of them
Padding == Rep(32, ChunkSize \div 2)

\* uploads whose text is longer than a chunk, for the sequential
\* specification: "a", "b" and "c", each followed by padding and the last two
\* starting a paragraph, over three pages of two files with an unreadable
\* file between them (three chunks); "x" and "y" likewise on one page (two
\* chunks)
LongUploads ==
    { <<Pdf(<<Page(<<97>> \o Padding), Page(<<10, 10, 98>> \o Padding)>>),
        Corrupt,
        Pdf(<<Page(<<10, 10, 99>> \o Padding)>>)>>,
      <<Pdf(<<Page(<<120>> \o Padding \o <<10, 10, 121>> \o Padding)>>)>> }

SequentialInputs == UploadInputs \cup LongUploads

\* bounds of the inputs of the pipeline specification
MaxFiles == 2
MaxPages == 2
MaxOver == 1
MaxWords == 40

SeqsUpTo(S, n) == UNION {[1..k -> S] : k \in 0..n}

PageValues == {BadPage, Page(<<>>), Page(<<97>>), Page(<<98>>)}
BufferValues == {Corrupt} \cup {Pdf(ps) : ps \in SeqsUpTo(PageValues, MaxPages)}
FileLists == SeqsUpTo(BufferValues, MaxFiles)

\* a word half as long as the overlap
WordLen == ChunkOverlap \div 2

\* the long texts of the pipeline specification: letters, as many as a chunk
\* holds or up to MaxOver fewer or more, after nothing or a space and before
\* nothing or a newline; twice as many letters as a chunk holds; spaces, as
\* many as a chunk holds; MaxWords words with a space or an empty line
\* between them
LongTexts ==
    {lead \o Rep(97, n) \o trail :
        lead \in {<<>>, <<32>>}, trail \in {<<>>, <<10>>},
        n \in (ChunkSize - MaxOver)..(ChunkSize + MaxOver)}
    \cup {Rep(97, 2 * ChunkSize), Rep(32, ChunkSize)}
    \cup {Words(Rep(97, WordLen), sep, MaxWords) : sep \in {<<32>>, <<10, 10>>}}

LongFiles == {<<Pdf(<<Page(text)>>)>> : text \in LongTexts}

\* ----------------------------------------------------------------------
\* State
\* ----------------------------------------------------------------------

VARIABLES
    index,          \* the directory at FAISS_INDEX_PATH
    apiKey,         \* whether GOOGLE_API_KEY is set in the environment
    running,        \* the task the event loop is running, or NoTask
    kind,           \* per task: "upload", "ask", "root", or "none"
    pc,             \* per task: where its handler is
    files,          \* per task: the uploaded buffers
    question,       \* per task: request.question
    nread,          \* per task: how many files line 83 has read
    raw_text,       \* per task: upload_pdfs' raw_text
    text_chunks,    \* per task: upload_pdfs' text_chunks
    vector_store,   \* per task: get_vector_store's vector_store
    resp,           \* per task: the response sent, NoResp before
    did,            \* per task: the calls the handler has made so far
    seen            \* per task: the index as it was when the task last got the loop

vars == <<index, apiKey, running, kind, pc, files, question, nread, raw_text,
          text_chunks, vector_store, resp, did, seen>>

request == <<kind, files, question>>
locals == <<nread, raw_text, text_chunks, vector_store>>

\* AwaitsAt as it would be if building the index were awaited too
AwaitsAtBuild(p) == p \in {"u_read", "u_build"}

\* the awaits: a handler gives the loop back only after a step at one of these
AwaitsAt(p) == p = "u_read"

\* the handler of t goes on to q after a step at p
Goto(t, p, q) ==
    /\ pc' = [pc EXCEPT ![t] = q]
    /\ running' = IF AwaitsAt(p) THEN NoTask ELSE t

Did(t, events) == did' = [did EXCEPT ![t] = @ \cup events]

\* the handler of t ends with response r; its locals go out of scope
Finish(t, r) ==
    /\ pc' = [pc EXCEPT ![t] = "done"]
    /\ resp' = [resp EXCEPT ![t] = r]
    /\ running' = NoTask
    /\ nread' = [nread EXCEPT ![t] = 0]
    /\ raw_text' = [raw_text EXCEPT ![t] = <<>>]
    /\ text_chunks' = [text_chunks EXCEPT ![t] = <<>>]
    /\ vector_store' = [vector_store EXCEPT ![t] = <<>>]

Idle ==
    /\ running = NoTask
    /\ kind = [t \in Tasks |-> "none"]
    /\ pc = [t \in Tasks |-> "idle"]
    /\ files = [t \in Tasks |-> <<>>]
    /\ question = [t \in Tasks |-> <<>>]
    /\ nread = [t \in Tasks |-> 0]
    /\ raw_text = [t \in Tasks |-> <<>>]
    /\ text_chunks = [t \in Tasks |-> <<>>]
    /\ vector_store = [t \in Tasks |-> <<>>]
    /\ resp = [t \in Tasks |-> NoResp]
    /\ did = [t \in Tasks |-> {}]
    /\ seen = [t \in Tasks |-> NoIndex]

\* what the directory can hold when the process starts: nothing, or what an
\* earlier process left there, a saved index or a half-written one
StartIndexes ==
    {NoIndex, PartialIndex}
    \cup {SavedIndex(from_texts(get_text_chunks(get_pdf_text(fs)))) :
            fs \in {f \in UploadInputs : get_text_chunks(get_pdf_text(f)) # <<>>}}

\* the service after startup: the directory as it was found, the key set or
\* not; startup itself does not touch the directory
Init ==
    /\ index \in StartIndexes
    /\ apiKey \in BOOLEAN
    /\ Idle

\* ----------------------------------------------------------------------
\* Requests and the event loop
\* ----------------------------------------------------------------------

\* a request arrives and becomes a task; files is a required field
\* (File(...), line 76), so the framework answers an upload without a file
\* itself and upload_pdfs is not entered
ReceiveUpload(t, inputs) ==
    /\ pc[t] = "idle"
    /\ \E fs \in inputs :
         /\ kind' = [kind EXCEPT ![t] = "upload"]
         /\ files' = [files EXCEPT ![t] = fs]
         /\ IF fs = <<>>
            THEN /\ pc' = [pc EXCEPT ![t] = "done"]
                 /\ resp' = [resp EXCEPT ![t] = FieldRequired]
                 /\ seen' = [seen EXCEPT ![t] = index]
            ELSE /\ pc' = [pc EXCEPT ![t] = "u_start"]
                 /\ UNCHANGED <<resp, seen>>
    /\ UNCHANGED <<index, apiKey, running, question, locals, did>>

ReceiveAsk(t) ==
    /\ pc[t] = "idle"
    /\ \E q \in Questions :
         /\ kind' = [kind EXCEPT ![t] = "ask"]
         /\ question' = [question EXCEPT ![t] = q]
         /\ pc' = [pc EXCEPT ![t] = "a_start"]
    /\ UNCHANGED <<index, apiKey, running, files, locals, resp, did, seen>>

ReceiveRoot(t) ==
    /\ pc[t] = "idle"
    /\ kind' = [kind EXCEPT ![t] = "root"]
    /\ pc' = [pc EXCEPT ![t] = "r_start"]
    /\ UNCHANGED <<index, apiKey, running, files, question, locals, resp, did,
                   seen>>

Receive(t) ==
    \/ ReceiveUpload(t, UploadInputs)
    \/ ReceiveAsk(t)
    \/ ReceiveRoot(t)

\* the event loop, idle, runs a task that is ready
Schedule(t) ==
    /\ running = NoTask
    /\ kind[t] \in {"upload", "ask"}
    /\ pc[t] \notin {"idle", "done"}
    /\ running' = t
    /\ seen' = [seen EXCEPT ![t] = index]
    /\ UNCHANGED <<index, apiKey, request, pc, locals, resp, did>>

\* the response has been sent; the task is gone
Reply(t) ==
    /\ pc[t] = "done"
    /\ pc' = [pc EXCEPT ![t] = "idle"]
    /\ kind' = [kind EXCEPT ![t] = "none"]
    /\ files' = [files EXCEPT ![t] = <<>>]
    /\ question' = [question EXCEPT ![t] = <<>>]
    /\ resp' = [resp EXCEPT ![t] = NoResp]
    /\ did' = [did EXCEPT ![t] = {}]
    /\ seen' = [seen EXCEPT ![t] = NoIndex]
    /\ UNCHANGED <<index, apiKey, running, locals>>

\* ----------------------------------------------------------------------
\* upload_pdfs
\* ----------------------------------------------------------------------

\* lines 76-80: the check for no files, outside the try; no request reaches
\* it with an empty list, which the framework has answered before
UploadStart(t) ==
    /\ running = t /\ pc[t] = "u_start"
    /\ IF files[t] = <<>>
       THEN /\ Finish(t, HttpResponse(HTTPException(400, NoFilesDetail)))
       ELSE /\ Goto(t, "u_start", "u_read")
            /\ UNCHANGED <<locals, resp>>
    /\ UNCHANGED <<index, apiKey, request, did, seen>>

\* line 83: await file.read(), once per file; the handler gives the loop
\* back while the file is read
UploadRead(t) ==
    /\ running = t /\ pc[t] = "u_read"
    /\ Goto(t, "u_read", "u_resume")
    /\ UNCHANGED <<index, apiKey, request, locals, resp, did, seen>>

\* line 83: the handler gets the loop back with what the read gave, the
\* file's content or an exception
UploadResume(t) ==
    /\ running = t /\ pc[t] = "u_resume"
    /\ \E ok \in BOOLEAN :
         IF ok
         THEN /\ nread' = [nread EXCEPT ![t] = @ + 1]
              /\ Goto(t, "u_resume",
                      IF nread[t] + 1 = Len(files[t]) THEN "u_extract" ELSE "u_read")
              /\ UNCHANGED <<raw_text, text_chunks, vector_store, resp>>
         ELSE Finish(t, UploadCatch(<<"read failed">>))
    /\ UNCHANGED <<index, apiKey, request, did, seen>>

\* line 85
UploadExtract(t) ==
    /\ running = t /\ pc[t] = "u_extract"
    /\ raw_text' = [raw_text EXCEPT ![t] = get_pdf_text(files[t])]
    /\ Goto(t, "u_extract", "u_check_text")
    /\ Did(t, {"extract"})
    /\ UNCHANGED <<index, apiKey, request, nread, text_chunks, vector_store,
                   resp, seen>>

\* lines 86-87: the HTTPException is raised inside the try
UploadCheckText(t) ==
    /\ running = t /\ pc[t] = "u_check_text"
    /\ IF raw_text[t] = <<>>
       THEN Finish(t, UploadCatch(StrHTTPException(HTTPException(400, NoTextDetail))))
       ELSE /\ Goto(t, "u_check_text", "u_chunk")
            /\ UNCHANGED <<locals, resp>>
    /\ UNCHANGED <<index, apiKey, request, did, seen>>

\* UploadChunk as it would be if the old index were removed before
\* get_vector_store's check for no chunks
UploadChunkDeleting(t) ==
    /\ running = t /\ pc[t] = "u_chunk"
    /\ text_chunks' = [text_chunks EXCEPT ![t] = get_text_chunks(raw_text[t])]
    /\ Goto(t, "u_chunk", "u_store")
    /\ index' = NoIndex
    /\ Did(t, IF index.exists THEN {"rmtree"} ELSE {})
    /\ UNCHANGED <<apiKey, request, nread, raw_text, vector_store, resp, seen>>

\* line 89
UploadChunk(t) ==
    /\ running = t /\ pc[t] = "u_chunk"
    /\ text_chunks' = [text_chunks EXCEPT ![t] = get_text_chunks(raw_text[t])]
    /\ Goto(t, "u_chunk", "u_store")
    /\ UNCHANGED <<index, apiKey, request, nread, raw_text, vector_store,
                   resp, did, seen>>

\* get_vector_store, lines 63-66: the check for no chunks, then the embedding
\* model is set up, which may raise
UploadStoreCheck(t) ==
    /\ running = t /\ pc[t] = "u_store"
    /\ IF text_chunks[t] = <<>>
       THEN Finish(t, UploadCatch(EmptyChunksError))
       ELSE \E ok \in BOOLEAN :
              IF ok
              THEN /\ Goto(t, "u_store", "u_rmtree")
                   /\ UNCHANGED <<locals, resp>>
              ELSE Finish(t, UploadCatch(<<"embeddings failed">>))
    /\ UNCHANGED <<index, apiKey, request, did, seen>>

\* get_vector_store, lines 67-68: an existing index is removed; rmtree may
\* raise, before or after it removed something
UploadRmtree(t) ==
    /\ running = t /\ pc[t] = "u_rmtree"
    /\ IF index.exists
       THEN /\ Did(t, {"rmtree"})
            /\ \E ok \in BOOLEAN :
                 IF ok
                 THEN /\ index' = NoIndex
                      /\ Goto(t, "u_rmtree", "u_build")
                      /\ UNCHANGED <<locals, resp>>
                 ELSE /\ index' \in {index, PartialIndex}
                      /\ Finish(t, UploadCatch(<<"rmtree failed">>))
       ELSE /\ Goto(t, "u_rmtree", "u_build")
            /\ UNCHANGED <<index, locals, resp, did>>
    /\ UNCHANGED <<apiKey, request, seen>>

\* UploadBuild as it would be if the new entries were added to the index
\* found when the handler got the loop
UploadBuildMerging(t) ==
    /\ running = t /\ pc[t] = "u_build"
    /\ \E ok \in BOOLEAN :
         IF ok
         THEN /\ vector_store' = [vector_store EXCEPT
                    ![t] = seen[t].docs \o from_texts(text_chunks[t])]
              /\ Goto(t, "u_build", "u_save")
              /\ UNCHANGED <<nread, raw_text, text_chunks, resp>>
         ELSE Finish(t, UploadCatch(<<"from_texts failed">>))
    /\ UNCHANGED <<index, apiKey, request, did, seen>>

\* get_vector_store, line 69: embedding the chunks may raise
UploadBuild(t) ==
    /\ running = t /\ pc[t] = "u_build"
    /\ \E ok \in BOOLEAN :
         IF ok
         THEN /\ vector_store' = [vector_store EXCEPT ![t] = from_texts(text_chunks[t])]
              /\ Goto(t, "u_build", "u_save")
              /\ UNCHANGED <<nread, raw_text, text_chunks, resp>>
         ELSE Finish(t, UploadCatch(<<"from_texts failed">>))
    /\ UNCHANGED <<index, apiKey, request, did, seen>>

\* get_vector_store, lines 70-71: save_local may raise, before or after it
\* wrote something
UploadSave(t) ==
    /\ running = t /\ pc[t] = "u_save"
    /\ Did(t, {"save"})
    /\ \E ok \in BOOLEAN :
         IF ok
         THEN /\ index' = SavedIndex(vector_store[t])
              /\ Goto(t, "u_save", "u_return")
              /\ UNCHANGED <<locals, resp>>
         ELSE /\ index' \in {index, PartialIndex}
              /\ Finish(t, UploadCatch(<<"save_local failed">>))
    /\ UNCHANGED <<apiKey, request, seen>>

\* lines 93-97
UploadReturn(t) ==
    /\ running = t /\ pc[t] = "u_return"
    /\ Finish(t, UploadSuccess)
    /\ UNCHANGED <<index, apiKey, request, did, seen>>

upload_pdfs(t) ==
    \/ UploadStart(t)
    \/ UploadRead(t)
    \/ UploadResume(t)
    \/ UploadExtract(t)
    \/ UploadCheckText(t)
    \/ UploadChunk(t)
    \/ UploadStoreCheck(t)
    \/ UploadRmtree(t)
    \/ UploadBuild(t)
    \/ UploadSave(t)
    \/ UploadReturn(t)

\* ----------------------------------------------------------------------
\* ask_question
\* ----------------------------------------------------------------------

\* lines 109-113: outside the try
AskStart(t) ==
    /\ running = t /\ pc[t] = "a_start"
    /\ IF question[t] = <<>>
       THEN Finish(t, HttpResponse(HTTPException(400, NoQuestionDetail)))
       ELSE /\ Goto(t, "a_start", "a_exists")
            /\ UNCHANGED <<locals, resp>>
    /\ UNCHANGED <<index, apiKey, request, did, seen>>

\* AskExists as it would be if the check were made inside the try
AskExistsInTry(t) ==
    /\ running = t /\ pc[t] = "a_exists"
    /\ IF ~index.exists
       THEN /\ Finish(t, AskCatch(StrHTTPException(HTTPException(400, NoDocumentsDetail))))
            /\ UNCHANGED did
       ELSE /\ Goto(t, "a_exists", "a_key")
            /\ Did(t, {"exists"})
            /\ UNCHANGED <<locals, resp>>
    /\ UNCHANGED <<index, apiKey, request, seen>>

\* lines 114-115: outside the try
AskExists(t) ==
    /\ running = t /\ pc[t] = "a_exists"
    /\ IF ~index.exists
       THEN /\ Finish(t, HttpResponse(HTTPException(400, NoDocumentsDetail)))
            /\ UNCHANGED did
       ELSE /\ Goto(t, "a_exists", "a_key")
            /\ Did(t, {"exists"})
            /\ UNCHANGED <<locals, resp>>
    /\ UNCHANGED <<index, apiKey, request, seen>>

\* AskKey as it would be if a missing key were not checked for
AskKeyUnchecked(t) ==
    /\ running = t /\ pc[t] = "a_key"
    /\ Did(t, {"getenv"})
    /\ Goto(t, "a_key", "a_load")
    /\ UNCHANGED <<index, apiKey, request, locals, resp, seen>>

\* lines 118-120
AskKey(t) ==
    /\ running = t /\ pc[t] = "a_key"
    /\ Did(t, {"getenv"})
    /\ IF ~apiKey
       THEN Finish(t, AskCatch(MissingKeyError))
       ELSE /\ Goto(t, "a_key", "a_load")
            /\ UNCHANGED <<locals, resp>>
    /\ UNCHANGED <<index, apiKey, request, seen>>

\* AskLoad as it would be if an index that does not load were removed
AskLoadCleaning(t) ==
    /\ running = t /\ pc[t] = "a_load"
    /\ \E ok \in BOOLEAN :
         IF ~ok
         THEN /\ Finish(t, AskCatch(<<"embeddings failed">>))
              /\ UNCHANGED <<did, index>>
         ELSE /\ Did(t, {"load"})
              /\ IF index.complete
                 THEN /\ Goto(t, "a_load", "a_invoke")
                      /\ UNCHANGED <<locals, resp, index>>
                 ELSE /\ Finish(t, AskCatch(<<"load_local failed">>))
                      /\ index' = NoIndex
    /\ UNCHANGED <<apiKey, request, seen>>

\* lines 122-124: the embedding model is set up, which may raise; then the
\* index is loaded, which raises unless the directory holds a whole index
AskLoad(t) ==
    /\ running = t /\ pc[t] = "a_load"
    /\ \E ok \in BOOLEAN :
         IF ~ok
         THEN /\ Finish(t, AskCatch(<<"embeddings failed">>))
              /\ UNCHANGED did
         ELSE /\ Did(t, {"load"})
              /\ IF index.complete
                 THEN /\ Goto(t, "a_load", "a_invoke")
                      /\ UNCHANGED <<locals, resp>>
                 ELSE Finish(t, AskCatch(<<"load_local failed">>))
    /\ UNCHANGED <<index, apiKey, request, seen>>

\* lines 127-151: the chain is built and invoked; the hosted model may raise
AskInvoke(t) ==
    /\ running = t /\ pc[t] = "a_invoke"
    /\ Did(t, {"invoke"})
    /\ \E ok \in BOOLEAN :
         IF ok THEN Finish(t, AnswerResponse)
         ELSE Finish(t, AskCatch(<<"invoke failed">>))
    /\ UNCHANGED <<index, apiKey, request, seen>>

ask_question(t) ==
    \/ AskStart(t)
    \/ AskExists(t)
    \/ AskKey(t)
    \/ AskLoad(t)
    \/ AskInvoke(t)

\* ----------------------------------------------------------------------
\* read_root: a plain def, run by the framework off the event loop
\* ----------------------------------------------------------------------

read_root(t) ==
    /\ pc[t] = "r_start"
    /\ pc' = [pc EXCEPT ![t] = "done"]
    /\ resp' = [resp EXCEPT ![t] = Welcome]
    /\ UNCHANGED <<index, apiKey, running, request, locals, did, seen>>

\* ----------------------------------------------------------------------
\* Specifications
\* ----------------------------------------------------------------------

Next ==
    \E t \in Tasks :
        \/ Receive(t)
        \/ Schedule(t)
        \/ Reply(t)
        \/ upload_pdfs(t)
        \/ ask_question(t)
        \/ read_root(t)

Spec == Init /\ [][Next]_vars

\* Upload requests executed one after the other: one task, which is an
\* upload each time, of a short or of a long text.
NextSequential ==
    \/ ReceiveUpload("t1", SequentialInputs)
    \/ Schedule("t1")
    \/ Reply("t1")
    \/ upload_pdfs("t1")

SpecSequential == Init /\ [][NextSequential]_vars

\* The pipeline alone: an upload whose files have all been read, for every
\* list of at most MaxFiles buffers of at most MaxPages pages and every
\* one-page file with a long text.
InitPipeline ==
    /\ index = NoIndex
    /\ apiKey = FALSE
    /\ running = "t1"
    /\ kind = [t \in Tasks |-> IF t = "t1" THEN "upload" ELSE "none"]
    /\ pc = [t \in Tasks |-> IF t = "t1" THEN "u_extract" ELSE "idle"]
    /\ \E fs \in (FileLists \ {<<>>}) \cup LongFiles :
         /\ files = [t \in Tasks |-> IF t = "t1" THEN fs ELSE <<>>]
         /\ nread = [t \in Tasks |-> IF t = "t1" THEN Len(fs) ELSE 0]
    /\ question = [t \in Tasks |-> <<>>]
    /\ raw_text = [t \in Tasks |-> <<>>]
    /\ text_chunks = [t \in Tasks |-> <<>>]
    /\ vector_store = [t \in Tasks |-> <<>>]
    /\ resp = [t \in Tasks |-> NoResp]
    /\ did = [t \in Tasks |-> {}]
    /\ seen = [t \in Tasks |-> NoIndex]

NextPipeline ==
    \E t \in Tasks :
        \/ UploadExtract(t)
        \/ UploadCheckText(t)
        \/ UploadChunk(t)

SpecPipeline == InitPipeline /\ [][NextPipeline]_vars

\* ----------------------------------------------------------------------
\* Properties
\* ----------------------------------------------------------------------

IsUpload(t) == kind[t] = "upload"
IsAsk(t) == kind[t] = "ask"

\* the request of t is answered in this step
Finishes(t) == pc[t] # "done" /\ pc'[t] = "done"

\* the handler of t takes a step
Steps(t) == pc[t] \notin {"idle", "done"} /\ pc'[t] # pc[t]

RECURSIVE Concat(_)
Concat(ss) == IF ss = <<>> THEN <<>> ELSE Head(ss) \o Concat(Tail(ss))

\* the first page of a buffer that fails, or one past the last page
FirstBad(pages) ==
    LET bad == {i \in 1..Len(pages) : ~pages[i].ok}
    IN IF bad = {} THEN Len(pages) + 1
       ELSE CHOOSE i \in bad : \A j \in bad : i <= j

\* the texts of a buffer's pages before its first failure, joined
ReadableText(buf) ==
    IF ~buf.opens THEN <<>>
    ELSE Concat([i \in 1..(FirstBad(buf.pages) - 1) |-> buf.pages[i].text])

ExpectedText(pdf_docs) ==
    Concat([k \in 1..Len(pdf_docs) |-> ReadableText(pdf_docs[k])])

StrippedLen(text) ==
    LET l == LStrip(text, 1, Len(text))
        h == RStrip(text, l, Len(text))
    IN h - l + 1

\* how many characters of the text two chunks share
Overlap(p, q) ==
    LET lo == IF p.lo > q.lo THEN p.lo ELSE q.lo
        hi == IF p.hi < q.hi THEN p.hi ELSE q.hi
    IN IF hi >= lo THEN hi - lo + 1 ELSE 0

ChunksBounded(text, chunks) ==
    LET spans == ChunkSpans(text)
    IN /\ Len(spans) = Len(chunks)
       /\ \A k \in 1..Len(chunks) :
            /\ chunks[k] = SubSeq(text, spans[k].lo, spans[k].hi)
            /\ Len(chunks[k]) <= ChunkSize
       /\ \A k \in 1..(Len(spans) - 1) :
            Overlap(spans[k], spans[k + 1]) <= ChunkOverlap

\* C1 (as claimed): an upload of at least one file whose extraction gives the
\* empty string is answered 400.
C1_EmptyTextIs400 ==
    \A t \in Tasks :
        (IsUpload(t) /\ pc[t] = "done" /\ files[t] # <<>>
            /\ "extract" \in did[t] /\ ExpectedText(files[t]) = <<>>)
        => resp[t].status = 400

\* C2 (as claimed): an upload that ends in an error response leaves the index
\* as it was when the request last got the loop.
C2_FailedUploadKeepsIndex ==
    [][\A t \in Tasks :
         (IsUpload(t) /\ Finishes(t) /\ resp'[t].status # 200)
         => index' = seen'[t]]_vars

\* C3: when an upload is about to return success, the index exists and holds
\* exactly one entry per chunk of that upload's extracted text, in chunk
\* order, and nothing of an earlier upload.
C3_SuccessfulUploadReplaces ==
    \A t \in Tasks :
        (IsUpload(t) /\ pc[t] = "u_return")
        => LET chunks == get_text_chunks(ExpectedText(files[t]))
           IN /\ index.exists /\ index.complete
              /\ Len(index.docs) = Len(chunks)
              /\ \A k \in 1..Len(chunks) :
                   index.docs[k] = [pos |-> k - 1, page_content |-> chunks[k]]

C3_Witness ==
    \E t \in Tasks :
        /\ IsUpload(t) /\ pc[t] = "u_return"
        /\ "rmtree" \in did[t]
        /\ seen[t].complete
        /\ Len(seen[t].docs) = 2
        /\ seen[t].docs[1].page_content = <<120>>
        /\ seen[t].docs[2].page_content = <<121>>
        /\ Len(index.docs) = 3
        /\ index.docs[1].page_content = <<97>>
        /\ index.docs[2].page_content = <<98>>
        /\ index.docs[3].page_content = <<99>>

\* an upload that has passed the removal of the old index and has not yet
\* finished saving the new one
MidReplace(u) == IsUpload(u) /\ pc[u] \in {"u_build", "u_save"}

\* an ask executes its existence check or its index load
AskObserves(a) == IsAsk(a) /\ pc[a] \in {"a_exists", "a_load"} /\ pc'[a] # pc[a]

\* C4 (as claimed): while an upload is between deleting the old index and
\* having saved the new one, the event loop can run a waiting ask.
C4_AskCanRunMidReplace ==
    \A u \in Tasks : \A a \in Tasks :
        (MidReplace(u) /\ "rmtree" \in did[u] /\ IsAsk(a) /\ pc[a] = "a_start")
        => ENABLED Schedule(a)

\* C4 (amended): no ask executes its existence check or its index load while
\* an upload is between deleting the old index and having saved the new one.
C4_AskNeverRunsMidReplace ==
    [][\A u \in Tasks : \A a \in Tasks : MidReplace(u) => ~AskObserves(a)]_vars

C4_Witness ==
    \E u \in Tasks : \E a \in Tasks :
        /\ MidReplace(u) /\ "rmtree" \in did[u]
        /\ IsAsk(a) /\ pc[a] = "a_start" /\ question[a] # <<>>

\* C5: an ask with an empty question is answered 400, and an ask with a
\* question that finds no index is answered 400 "no documents processed",
\* whether the key is set or not.
C5_AskRejections ==
    \A t \in Tasks :
        (IsAsk(t) /\ pc[t] = "done")
        => /\ question[t] = <<>>
                => resp[t] = [status |-> 400, detail |-> NoQuestionDetail]
           /\ (question[t] # <<>> /\ ~seen[t].exists)
                => resp[t] = [status |-> 400, detail |-> NoDocumentsDetail]

C5_Witness ==
    \E t \in Tasks : \E u \in Tasks :
        /\ ~apiKey
        /\ IsAsk(t) /\ pc[t] = "done" /\ question[t] # <<>> /\ ~seen[t].exists
        /\ resp[t].status = 400
        /\ IsAsk(u) /\ pc[u] = "done" /\ question[u] = <<>>

\* C6: an ask with a question that finds an index but no key is answered 500
\* with the missing-key message, without loading the index or invoking the
\* model; no other handler reads the key.
C6_MissingKey ==
    /\ \A t \in Tasks :
         (IsAsk(t) /\ pc[t] = "done" /\ "exists" \in did[t] /\ ~apiKey)
         => /\ resp[t] = [status |-> 500,
                          detail |-> <<"An internal error occurred: ">>
                                       \o MissingKeyError]
            /\ "load" \notin did[t]
            /\ "invoke" \notin did[t]
    /\ \A t \in Tasks : ~IsAsk(t) => "getenv" \notin did[t]
    /\ \A t \in Tasks :
         (kind[t] = "root" /\ pc[t] = "done") => resp[t] = Welcome

C6_Witness ==
    \E t \in Tasks : \E u \in Tasks :
        /\ ~apiKey
        /\ index.complete
        /\ IsAsk(t) /\ pc[t] = "done" /\ resp[t].status = 500
        /\ question[t] # <<>> /\ did[t] = {"exists", "getenv"}
        /\ IsUpload(u) /\ pc[u] = "done" /\ resp[u] = UploadSuccess

\* C7: the text the extractor returns is the texts of the pages of the
\* buffers, in buffer order and page order, of every buffer that opens up to
\* its first failing page; a failing buffer stops neither the extractor nor
\* the buffers after it.
C7_ExtractorConcatenates ==
    \A t \in Tasks :
        (IsUpload(t) /\ pc[t] = "u_check_text")
        => raw_text[t] = ExpectedText(files[t])

C7_Witness ==
    \E t \in Tasks :
        /\ IsUpload(t) /\ pc[t] = "u_check_text"
        /\ Len(files[t]) = 2
        /\ files[t][1] = Pdf(<<Page(<<98>>), BadPage>>)
        /\ files[t][2] = Pdf(<<Page(<<>>), Page(<<97>>)>>)
        /\ raw_text[t] = <<98, 97>>

\* C8 (as claimed): a text of at least chunk_size characters gives at least
\* two chunks, each of at most chunk_size characters, adjacent ones sharing
\* at most chunk_overlap characters.
C8_LongTextTwoChunks ==
    \A t \in Tasks :
        (IsUpload(t) /\ pc[t] = "u_store" /\ Len(raw_text[t]) >= ChunkSize)
        => /\ Len(text_chunks[t]) >= 2
           /\ ChunksBounded(raw_text[t], text_chunks[t])

\* C8 (amended): a text of at least chunk_size characters gives chunks of at
\* most chunk_size characters each, adjacent ones sharing at most
\* chunk_overlap characters; there are at least two of them when the text,
\* stripped of leading and trailing whitespace, is longer than chunk_size,
\* and at most one when the text has exactly chunk_size characters.
C8_ChunksBounded ==
    \A t \in Tasks :
        (IsUpload(t) /\ pc[t] = "u_store" /\ Len(raw_text[t]) >= ChunkSize)
        => /\ ChunksBounded(raw_text[t], text_chunks[t])
           /\ StrippedLen(raw_text[t]) > ChunkSize => Len(text_chunks[t]) >= 2
           /\ Len(raw_text[t]) = ChunkSize => Len(text_chunks[t]) <= 1

C8_Witness ==
    \E t \in Tasks :
        /\ IsUpload(t) /\ pc[t] = "u_store"
        /\ StrippedLen(raw_text[t]) > ChunkSize
        /\ Len(text_chunks[t]) >= 3
        /\ LET spans == ChunkSpans(raw_text[t])
           IN /\ Overlap(spans[1], spans[2]) = ChunkOverlap
              /\ Overlap(spans[2], spans[3]) = ChunkOverlap

\* C9: no step of an ask handler and no step of the handler of GET / changes
\* the index; only a step of an upload handler does.
C9_OnlyUploadWritesIndex ==
    [][/\ \A t \in Tasks :
            (kind[t] \in {"ask", "root"} /\ Steps(t)) => index' = index
       /\ index' # index => \E t \in Tasks : IsUpload(t) /\ Steps(t)]_vars

C9_Witness ==
    \E t \in Tasks :
        /\ IsAsk(t) /\ pc[t] = "done" /\ "load" \in did[t]
        /\ resp[t].status = 500 /\ ~index.complete /\ index.exists

\* C10: an upload rejected for having no files, no text or no chunks has
\* neither removed nor written the index.
Rejections ==
    { FieldRequired,
      HttpResponse(HTTPException(400, NoFilesDetail)),
      UploadCatch(StrHTTPException(HTTPException(400, NoTextDetail))),
      UploadCatch(EmptyChunksError) }

C10_RejectedUploadKeepsIndex ==
    [][\A t \in Tasks :
         (IsUpload(t) /\ Finishes(t) /\ resp'[t] \in Rejections)
         => /\ index' = seen'[t]
            /\ did'[t] \cap {"rmtree", "save"} = {}]_vars

C10_Witness ==
    \E t \in Tasks :
        /\ IsUpload(t) /\ pc[t] = "done"
        /\ resp[t] = UploadCatch(EmptyChunksError)
        /\ index.complete /\ index = seen[t]

====
